---- MODULE Spec2Model ----
(***************************************************************************)
(* Model of services/alertmanager/service.go: the Alertmanager alert       *)
(* handler of Kapacitor.  A Service holds its Config in an atomic.Value;   *)
(* Handler.Handle and Service.Test both go through Service.Alert, which    *)
(* loads the Config once, builds one AlertManagerAlert and POSTs it;       *)
(* Service.Update replaces the Config.                                     *)
(*                                                                         *)
(* Go values are modelled as follows.  A struct is a record with the Go    *)
(* field names.  A slice is a sequence (Go index i is TLA+ index i+1).     *)
(* A map[string]string is a function whose DOMAIN is the key set.  An      *)
(* interface{} value is a record [type, val] carrying its dynamic type.    *)
(* An error is a record [msg, arg]; NilErr is the nil error.               *)
(***************************************************************************)
EXTENDS Integers, Sequences, FiniteSets, TLC

\* ------------------------------------------------------------------ bounds
\* Number of goroutines that may run Handle/Test concurrently.
NumProcs == 2
\* Longest label / annotation list of a HandlerConfig or testOptions.
MaxLen == 2
\* Longest argument slice handed to Service.Update.
MaxArgs == 2

Procs == 1..NumProcs

\* ------------------------------------------------------------ value domains
URLs == {"http://am-1/api", "http://am-2/api"}
Rooms == {"ops"}
Names == {"severity", "summary"}
Values == {"page", "disk full"}

\* alert.Level: the severity levels of an event.
Levels == {"OK", "Info", "Warning", "Critical"}
OK == "OK"
Critical == "Critical"

\* http.StatusOK
StatusOK == 200
\* Status codes a destination may answer with.
StatusCodes == {StatusOK, 204, 500}

\* Config: the fields of the service configuration that service.go reads.
Configs == [Enabled : BOOLEAN, URL : URLs, Room : Rooms]
\* The zero Config (a local `c` before it is assigned).
ZeroConfig == [Enabled |-> FALSE, URL |-> "", Room |-> ""]

\* All sequences over S of length at most n.
SeqUpTo(S, n) == UNION {[1..k -> S] : k \in 0..n}

\* HandlerConfig values whose name and value lists pair up (the intended
\* invariant): n labels and m annotations, names and values of equal length.
PairedHandlerConfigs ==
    UNION {
        {[Room |-> r,
          AlertManagerTagName |-> tn, AlertManagerTagValue |-> tv,
          AlertManagerAnnotationName |-> an, AlertManagerAnnotationValue |-> av] :
            r \in Rooms,
            tn \in [1..nm[1] -> Names], tv \in [1..nm[1] -> Values],
            an \in [1..nm[2] -> Names], av \in [1..nm[2] -> Values]} :
        nm \in (0..MaxLen) \X (0..MaxLen)}

\* The handler configuration of the end-to-end scenario.
ScenarioHandlerConfig ==
    [Room |-> "ops",
     AlertManagerTagName |-> <<"severity">>, AlertManagerTagValue |-> <<"page">>,
     AlertManagerAnnotationName |-> <<"summary">>,
     AlertManagerAnnotationValue |-> <<"disk full">>]

\* testOptions built from a HandlerConfig's lists (same fields plus Message).
OptionsOf(hc) ==
    [Room |-> hc.Room, Message |-> "test alertmanager message",
     AlertManagerTagName |-> hc.AlertManagerTagName,
     AlertManagerTagValue |-> hc.AlertManagerTagValue,
     AlertManagerAnnotationName |-> hc.AlertManagerAnnotationName,
     AlertManagerAnnotationValue |-> hc.AlertManagerAnnotationValue]

\* interface{} values: the dynamic type and the value.
Box(t, v) == [type |-> t, val |-> v]

\* ------------------------------------------------------------------ errors
NilErr == [msg |-> "nil", arg |-> 0]
\* What a call without a return value hands to its caller.
Void == [msg |-> "void", arg |-> 0]
ErrNotEnabled == [msg |-> "service is not enabled", arg |-> 0]
ErrTransport == [msg |-> "http.Post failed", arg |-> 0]
ErrStatus(code) ==
    [msg |-> "unexpected response code %d from Alertmanager service", arg |-> code]
ErrCardinality(l) ==
    [msg |-> "expected only one new config object, got %d", arg |-> l]
ErrConfigType == [msg |-> "expected config object to be of type %T, got %T", arg |-> 0]
ErrOptionsType == [msg |-> "unexpected options type %T", arg |-> 0]

\* ------------------------------------------------------------------- state
VARIABLES
    configValue,   \* Service.configValue: the Config last stored
    pc,            \* pc[p]: where goroutine p is in its Handle/Test call
    kind,          \* kind[p]: "Handle" or "Test", the call p last made
    args,          \* args[p]: the arguments p passed to Service.Alert
    c,             \* c[p]: Alert's local c, the Config it loaded
    posts,         \* posts[p]: the http.Post requests p's call has issued
    resp,          \* resp[p]: the *http.Response p's call received
    alertErr,      \* alertErr[p]: the error Service.Alert returned
    ret,           \* ret[p]: what the call returned to its caller
    diag,          \* diag[p]: the Diagnostic.Error calls p's call made
    lastUpdate,    \* the last Update call: its argument and its result
    lastGood       \* the Config of the last Update that returned nil

vars == <<configValue, pc, kind, args, c, posts, resp, alertErr, ret, diag,
          lastUpdate, lastGood>>

procVars == <<pc, kind, args, c, posts, resp, alertErr, ret, diag>>

\* Zero values of a call's locals.
ZeroArgs ==
    [room |-> "", tagName |-> <<>>, tagValue |-> <<>>,
     annotationName |-> <<>>, annotationValue |-> <<>>, alertLevel |-> "nil"]
ZeroResp == [received |-> FALSE, StatusCode |-> 0, bodyClosed |-> FALSE]

\* NewService(c, d): stores c; no call is in progress.
Init ==
    /\ configValue \in Configs
    /\ pc = [p \in Procs |-> "idle"]
    /\ kind = [p \in Procs |-> "none"]
    /\ args = [p \in Procs |-> ZeroArgs]
    /\ c = [p \in Procs |-> ZeroConfig]
    /\ posts = [p \in Procs |-> <<>>]
    /\ resp = [p \in Procs |-> ZeroResp]
    /\ alertErr = [p \in Procs |-> NilErr]
    /\ ret = [p \in Procs |-> Void]
    /\ diag = [p \in Procs |-> <<>>]
    /\ lastUpdate = [called |-> FALSE, arg |-> <<>>, err |-> NilErr]
    /\ lastGood = configValue

\* ---------------------------------------------------------------- mutants
\* Slips of the code that the checked properties must tell from the code.
\* Only Critical fires.
AlertStatusOnlyCritical(alertLevel) ==
    IF alertLevel = Critical THEN "firing" ELSE "resolved"
\* The enabled check is dropped.
NotEnabledNever(cfg) == FALSE
\* The URL is read from the service again at the time of the POST.
PostURLReloaded(loaded, stored) == stored.URL
\* Every 2xx status is taken for success.
ResponseErrAny2xx(code) == IF code >= 300 THEN ErrStatus(code) ELSE NilErr
\* Handle reports to diag whatever Alert returned.
HandleDiagAlways(e) == <<[msg |-> "E! failed to handle event", err |-> e]>>
\* Update stores the first element whenever there is one of type Config.
UpdateStoreFirst(newConfig, old) ==
    IF Len(newConfig) = 0 THEN old
    ELSE IF newConfig[1].type # "Config" THEN old
    ELSE newConfig[1].val

\* ---------------------------------------------------- Service.Alert, pure parts
\* Lines 94-97: "firing" unless the level is alert.OK.
AlertStatus(alertLevel) == IF alertLevel = OK THEN "resolved" ELSE "firing"

\* A Go map assignment m[k] = v.
MapSet(m, k, v) == [x \in (DOMAIN m) \cup {k} |-> IF x = k THEN v ELSE m[x]]
\* map[string]string{}
EmptyMap == [x \in {} |-> ""]

\* for i := from; i < bound; i++ { m[names[i]] = values[i] }
\* An index outside a slice panics (runtime error: index out of range).
RECURSIVE LoopFrom(_, _, _, _, _)
LoopFrom(names, values, bound, i, m) ==
    IF i >= bound THEN [panic |-> FALSE, m |-> m]
    ELSE IF i >= Len(names) \/ i >= Len(values) THEN [panic |-> TRUE, m |-> m]
    ELSE LoopFrom(names, values, bound, i + 1, MapSet(m, names[i + 1], values[i + 1]))

\* The upper bound of both loops of Alert: len(tagName)-1.
LoopBound(tagName) == Len(tagName) - 1

\* Lines 98-101: the labels map.
AlertLabels(tagName, tagValue) ==
    LoopFrom(tagName, tagValue, LoopBound(tagName), 0, EmptyMap)

\* Lines 103-106: the annotations map; the loop is bounded by tagName.
AlertAnnotations(tagName, annotationName, annotationValue) ==
    LoopFrom(annotationName, annotationValue, LoopBound(tagName), 0, EmptyMap)

\* Lines 108-116: the record and the one-element batch holding it.  The
\* batch is kept as the JSON document json.Marshal writes: an array of
\* objects with the keys Status, Labels, Annotations, each map an object
\* (Marshal cannot fail on strings and string maps, so lines 117-119 are
\* never taken).
NewAlert(a) ==
    [Status |-> AlertStatus(a.alertLevel),
     Labels |-> AlertLabels(a.tagName, a.tagValue).m,
     Annotations |-> AlertAnnotations(a.tagName, a.annotationName, a.annotationValue).m]
PostMessage(a) == <<NewAlert(a)>>

\* Whether building the record panics.
BuildPanics(a) ==
    \/ AlertLabels(a.tagName, a.tagValue).panic
    \/ AlertAnnotations(a.tagName, a.annotationName, a.annotationValue).panic

\* Line 90: the enabled check on the loaded Config.
NotEnabled(cfg) == ~cfg.Enabled

\* Line 121: the URL posted to is the one of the loaded Config c, not of the
\* Config stored now.
PostURL(loaded, stored) == loaded.URL

\* Lines 126-129: the error for a received response.
ResponseErr(code) == IF code # StatusOK THEN ErrStatus(code) ELSE NilErr

\* What http.Post may come back with: a transport failure or a response.
Outcomes ==
    {[failed |-> TRUE, code |-> 0]} \cup {[failed |-> FALSE, code |-> s] : s \in StatusCodes}

\* --------------------------------------------------- Handle / Test, pure parts
\* Lines 175-177: Handle reports a non-nil error to diag and returns nothing.
HandleDiag(e) ==
    IF e # NilErr THEN <<[msg |-> "E! failed to handle event", err |-> e]>> ELSE <<>>
\* Line 202: Test returns Alert's error.
TestReturn(e) == e

\* The end of a call of kind k whose Service.Alert returned e.
Return(p, e) ==
    /\ pc' = [pc EXCEPT ![p] = "returned"]
    /\ alertErr' = [alertErr EXCEPT ![p] = e]
    /\ ret' = [ret EXCEPT ![p] = IF kind[p] = "Test" THEN TestReturn(e) ELSE Void]
    /\ diag' = [diag EXCEPT ![p] = IF kind[p] = "Handle" THEN HandleDiag(e) ELSE <<>>]

Callable(p) == pc[p] = "idle"

\* Entering Service.Alert and running line 89, c := s.config().
EnterAlert(p, k, a) ==
    /\ kind' = [kind EXCEPT ![p] = k]
    /\ args' = [args EXCEPT ![p] = a]
    /\ c' = [c EXCEPT ![p] = configValue]
    /\ pc' = [pc EXCEPT ![p] = "loaded"]
    /\ posts' = [posts EXCEPT ![p] = <<>>]
    /\ resp' = [resp EXCEPT ![p] = ZeroResp]
    /\ alertErr' = [alertErr EXCEPT ![p] = NilErr]
    /\ ret' = [ret EXCEPT ![p] = Void]
    /\ diag' = [diag EXCEPT ![p] = <<>>]

\* ----------------------------------------------------------------- actions
\* handler.Handle(event), up to Alert's load of the Config (lines 170-175, 89).
Handle(p, hc, level) ==
    /\ Callable(p)
    /\ EnterAlert(p, "Handle",
                  [room |-> hc.Room,
                   tagName |-> hc.AlertManagerTagName,
                   tagValue |-> hc.AlertManagerTagValue,
                   annotationName |-> hc.AlertManagerAnnotationName,
                   annotationValue |-> hc.AlertManagerAnnotationValue,
                   alertLevel |-> level])
    /\ UNCHANGED <<configValue, lastUpdate, lastGood>>

\* Service.Test(o), up to Alert's load of the Config (lines 197-202, 89): an o
\* that is not a *testOptions is refused at once.
Test(p, o) ==
    /\ Callable(p)
    /\ IF o.type # "*testOptions"
       THEN /\ kind' = [kind EXCEPT ![p] = "Test"]
            /\ args' = [args EXCEPT ![p] = ZeroArgs]
            /\ c' = [c EXCEPT ![p] = ZeroConfig]
            /\ pc' = [pc EXCEPT ![p] = "returned"]
            /\ posts' = [posts EXCEPT ![p] = <<>>]
            /\ resp' = [resp EXCEPT ![p] = ZeroResp]
            /\ alertErr' = [alertErr EXCEPT ![p] = NilErr]
            /\ ret' = [ret EXCEPT ![p] = ErrOptionsType]
            /\ diag' = [diag EXCEPT ![p] = <<>>]
       ELSE EnterAlert(p, "Test",
                       [room |-> o.val.Room,
                        tagName |-> o.val.AlertManagerTagName,
                        tagValue |-> o.val.AlertManagerTagValue,
                        annotationName |-> o.val.AlertManagerAnnotationName,
                        annotationValue |-> o.val.AlertManagerAnnotationValue,
                        alertLevel |-> Critical])
    /\ UNCHANGED <<configValue, lastUpdate, lastGood>>

\* Service.Alert from the enabled check to the call of http.Post
\* (lines 90-121): a disabled Config ends the call; otherwise the record is
\* built (which may panic) and the request is issued.  A panicked call
\* never continues: service.go recovers nowhere.
AlertSend(p) ==
    /\ pc[p] = "loaded"
    /\ IF NotEnabled(c[p])
       THEN /\ Return(p, ErrNotEnabled)
            /\ UNCHANGED posts
       ELSE IF BuildPanics(args[p])
       THEN /\ pc' = [pc EXCEPT ![p] = "panicked"]
            /\ UNCHANGED <<posts, alertErr, ret, diag>>
       ELSE /\ posts' = [posts EXCEPT ![p] =
                           Append(@, [url |-> PostURL(c[p], configValue),
                                      contentType |-> "application/json",
                                      data |-> PostMessage(args[p])])]
            /\ pc' = [pc EXCEPT ![p] = "posting"]
            /\ UNCHANGED <<alertErr, ret, diag>>
    /\ UNCHANGED <<configValue, kind, args, c, resp, lastUpdate, lastGood>>

\* http.Post comes back (lines 121-129) and the call ends.  A response's body
\* is closed (line 125) before its status is looked at.
AlertReturn(p, r) ==
    /\ pc[p] = "posting"
    /\ IF r.failed
       THEN /\ Return(p, ErrTransport)
            /\ UNCHANGED resp
       ELSE /\ resp' = [resp EXCEPT ![p] = [received |-> TRUE, StatusCode |-> r.code,
                                            bodyClosed |-> TRUE]]
            /\ Return(p, ResponseErr(r.code))
    /\ UNCHANGED <<configValue, kind, args, c, posts, lastUpdate, lastGood>>

\* The caller has taken the result of p's call; p is free for the next event.
Finish(p) ==
    /\ pc[p] = "returned"
    /\ pc' = [pc EXCEPT ![p] = "idle"]
    /\ kind' = [kind EXCEPT ![p] = "none"]
    /\ args' = [args EXCEPT ![p] = ZeroArgs]
    /\ c' = [c EXCEPT ![p] = ZeroConfig]
    /\ posts' = [posts EXCEPT ![p] = <<>>]
    /\ resp' = [resp EXCEPT ![p] = ZeroResp]
    /\ alertErr' = [alertErr EXCEPT ![p] = NilErr]
    /\ ret' = [ret EXCEPT ![p] = Void]
    /\ diag' = [diag EXCEPT ![p] = <<>>]
    /\ UNCHANGED <<configValue, lastUpdate, lastGood>>

\* ---------------------------------------------------------- Service.Update
\* Lines 64-68: the error Update returns.
UpdateErr(newConfig) ==
    IF Len(newConfig) # 1 THEN ErrCardinality(Len(newConfig))
    ELSE IF newConfig[1].type # "Config" THEN ErrConfigType
    ELSE NilErr

\* Lines 64-71: the Config held after Update, given the one held before.
UpdateStore(newConfig, old) ==
    IF Len(newConfig) # 1 THEN old
    ELSE IF newConfig[1].type # "Config" THEN old
    ELSE newConfig[1].val

Update(newConfig) ==
    /\ configValue' = UpdateStore(newConfig, configValue)
    /\ lastUpdate' = [called |-> TRUE, arg |-> newConfig, err |-> UpdateErr(newConfig)]
    /\ lastGood' = IF lastUpdate'.err = NilErr THEN newConfig[1].val ELSE lastGood
    /\ UNCHANGED procVars

\* Elements a caller may put in Update's []interface{}: Configs and a value
\* of another type.
UpdateElems ==
    {Box("Config", cfg) : cfg \in Configs}
        \cup {Box("HandlerConfig", ScenarioHandlerConfig)}
UpdateArgs == SeqUpTo(UpdateElems, MaxArgs)
\* The reload path's arguments: one Config, or nothing.
ReloadArgs == {<<e>> : e \in {Box("Config", cfg) : cfg \in Configs}} \cup {<<>>}

\* ------------------------------------------------------------ specifications
\* The whole service: goroutines dispatch the scenario's rule concurrently
\* while the configuration is reloaded.
ScenarioOptions ==
    {Box("*testOptions", OptionsOf(ScenarioHandlerConfig)),
     Box("HandlerConfig", ScenarioHandlerConfig)}

Next ==
    \/ \E p \in Procs :
        \/ Callable(p) /\ \E level \in {OK, Critical} :
                              Handle(p, ScenarioHandlerConfig, level)
        \/ Callable(p) /\ \E o \in ScenarioOptions : Test(p, o)
        \/ AlertSend(p)
        \/ \E r \in Outcomes : AlertReturn(p, r)
        \/ Finish(p)
    \/ \E newConfig \in ReloadArgs : Update(newConfig)

Spec == Init /\ [][Next]_vars

\* One goroutine dispatching every paired handler configuration and level
\* under a fixed Config.
BuildProcs == {p \in Procs : \A q \in Procs : p <= q}
BuildOptions ==
    {Box("*testOptions", OptionsOf(hc)) : hc \in PairedHandlerConfigs}
        \cup {Box("HandlerConfig", ScenarioHandlerConfig)}

NextBuild ==
    \E p \in BuildProcs :
        \/ Callable(p) /\ \E hc \in PairedHandlerConfigs, level \in Levels :
                              Handle(p, hc, level)
        \/ Callable(p) /\ \E o \in BuildOptions : Test(p, o)
        \/ AlertSend(p)
        \/ \E r \in Outcomes : AlertReturn(p, r)
        \/ Finish(p)

SpecBuild == Init /\ [][NextBuild]_vars

\* The configuration cell alone: any sequence of Update calls.
NextUpdate == \E newConfig \in UpdateArgs : Update(newConfig)

SpecUpdate == Init /\ [][NextUpdate]_vars

\* ------------------------------------------------------------------ claims
\* p's call has loaded a Config (line 89 has run).
Loaded(p) == c[p] \in Configs
\* p's call has issued a POST; Sent(p) is then its first request's record.
HasSent(p) == Len(posts[p]) >= 1
SentRecord(p) == posts[p][1].data[1]

Distinct(names) ==
    \A i, j \in 1..Len(names) : i # j => names[i] # names[j]
\* m has exactly the entries names[i] -> values[i].
MapIsPairs(m, names, values) ==
    /\ DOMAIN m = {names[i] : i \in 1..Len(names)}
    /\ Cardinality(DOMAIN m) = Len(names)
    /\ \A i \in 1..Len(names) : m[names[i]] = values[i]

\* C1: for N paired labels with distinct names, the Labels map of the record
\* that is sent has exactly the N entries tagName[i] -> tagValue[i].
C1_LabelsComplete ==
    \A p \in Procs :
        (/\ HasSent(p)
         /\ Len(args[p].tagName) = Len(args[p].tagValue)
         /\ Distinct(args[p].tagName))
        => MapIsPairs(SentRecord(p).Labels, args[p].tagName, args[p].tagValue)

\* C2: for M paired annotations with distinct names, the Annotations map of
\* the record that is sent has exactly the M entries
\* annotationName[i] -> annotationValue[i], whatever the number of labels.
C2_AnnotationsComplete ==
    \A p \in Procs :
        (/\ HasSent(p)
         /\ Len(args[p].annotationName) = Len(args[p].annotationValue)
         /\ Distinct(args[p].annotationName))
        => MapIsPairs(SentRecord(p).Annotations,
                      args[p].annotationName, args[p].annotationValue)

\* C3: the Status of a sent record is "resolved" exactly for level OK and
\* "firing" for every other level; a Test always sends "firing".
C3_StatusPartition ==
    \A p \in Procs :
        HasSent(p) =>
            /\ SentRecord(p).Status \in {"firing", "resolved"}
            /\ SentRecord(p).Status = "resolved" <=> args[p].alertLevel = "OK"
            /\ args[p].alertLevel \in {"Info", "Warning", "Critical"}
                   => SentRecord(p).Status = "firing"
            /\ kind[p] = "Test" => SentRecord(p).Status = "firing"
C3_Witness ==
    \E p \in Procs :
        /\ HasSent(p) /\ kind[p] = "Handle"
        /\ args[p].alertLevel = "OK" /\ SentRecord(p).Status = "resolved"

\* C4: a call whose loaded Config is disabled issues no POST and Alert
\* returns the 'service is not enabled' error.
C4_DisabledNoPost ==
    \A p \in Procs :
        (Loaded(p) /\ ~c[p].Enabled) =>
            /\ posts[p] = <<>>
            /\ resp[p] = ZeroResp
            /\ pc[p] \in {"loaded", "returned"}
            /\ pc[p] = "returned" => alertErr[p] = ErrNotEnabled
C4_Witness ==
    \E p \in Procs :
        /\ Loaded(p) /\ ~c[p].Enabled /\ pc[p] = "returned"
        /\ Len(args[p].tagName) = MaxLen /\ args[p].alertLevel = "Critical"
        /\ alertErr[p] = ErrNotEnabled /\ posts[p] = <<>>

\* C5: Update fails with the cardinality error for an argument of length 0
\* or >= 2, with the type error for one element that is not a Config, and
\* succeeds for one Config, which config() then yields; after any sequence
\* of Updates config() is the argument of the last successful one (or the
\* constructor's Config).
C5_UpdateContract ==
    /\ lastUpdate.called =>
        LET a == lastUpdate.arg
            e == lastUpdate.err
        IN  /\ Len(a) # 1 => e = ErrCardinality(Len(a))
            /\ (Len(a) = 1 /\ a[1].type # "Config") => e = ErrConfigType
            /\ (Len(a) = 1 /\ a[1].type = "Config") =>
                   (e = NilErr /\ configValue = a[1].val)
    /\ configValue = lastGood
C5_Witness ==
    /\ lastUpdate.called
    /\ Len(lastUpdate.arg) = 2
    /\ lastUpdate.arg[1].type = "Config"
    /\ lastUpdate.arg[1].val # configValue
    /\ lastUpdate.err = ErrCardinality(2)

\* C6: once the POST of an enabled call has come back, Alert returns nil
\* exactly if a response with status 200 was received, the
\* unexpected-status error carrying the code for any other response, and an
\* error for a transport failure; a received response's body is closed.
C6_ResponseValidation ==
    \A p \in Procs :
        (pc[p] = "returned" /\ HasSent(p)) =>
            IF resp[p].received
            THEN /\ alertErr[p] = NilErr <=> resp[p].StatusCode = 200
                 /\ resp[p].StatusCode # 200 =>
                        alertErr[p] = ErrStatus(resp[p].StatusCode)
                 /\ resp[p].bodyClosed
            ELSE alertErr[p] = ErrTransport /\ alertErr[p] # NilErr
C6_Witness ==
    \E p, q \in Procs :
        /\ pc[p] = "returned" /\ HasSent(p) /\ resp[p].received
        /\ resp[p].StatusCode = 500 /\ alertErr[p] = ErrStatus(500)
        /\ resp[p].bodyClosed
        /\ pc[q] = "returned" /\ HasSent(q) /\ resp[q].received
        /\ resp[q].StatusCode = 200 /\ alertErr[q] = NilErr
        /\ resp[q].bodyClosed

\* The failures of a dispatch: a disabled Config, a transport failure, a
\* status other than 200.
DispatchFailed(p) ==
    \/ ~c[p].Enabled
    \/ ~resp[p].received
    \/ resp[p].StatusCode # 200

\* C7: for a failed dispatch Test returns the error to its caller, while
\* Handle returns nothing and calls diag.Error exactly once with it; for a
\* successful dispatch Handle calls diag.Error zero times.
C7_ErrorPropagation ==
    \A p \in Procs :
        (pc[p] = "returned" /\ Loaded(p)) =>
            /\ DispatchFailed(p) <=> alertErr[p] # NilErr
            /\ kind[p] = "Test" => (ret[p] = alertErr[p] /\ diag[p] = <<>>)
            /\ kind[p] = "Handle" =>
                /\ ret[p] = Void
                /\ Len(diag[p]) = IF DispatchFailed(p) THEN 1 ELSE 0
                /\ DispatchFailed(p) => diag[p][1].err = alertErr[p]
C7_Witness ==
    \E p, q \in Procs :
        /\ pc[p] = "returned" /\ kind[p] = "Test" /\ ret[p] = ErrStatus(500)
        /\ pc[q] = "returned" /\ kind[q] = "Handle" /\ ret[q] = Void
        /\ alertErr[q] = ErrStatus(500) /\ Len(diag[q]) = 1

\* C8: for paired lists, building the record never indexes a list out of
\* range: no call panics.
C8_NoOutOfRange ==
    \A p \in Procs :
        (/\ Len(args[p].tagName) = Len(args[p].tagValue)
         /\ Len(args[p].annotationName) = Len(args[p].annotationValue))
        => pc[p] # "panicked"

\* The request a call has issued comes from its own loaded Config: enabled,
\* and posted to that Config's URL.
C9_SnapshotState ==
    \A p \in Procs :
        HasSent(p) =>
            /\ Loaded(p)
            /\ c[p].Enabled
            /\ posts[p][1].url = c[p].URL
\* A step loads the Config stored at that time, and no step of a running
\* call (or of Update) changes its loaded Config or the request it issued.
C9_SnapshotStep ==
    \A p \in Procs :
        /\ (pc[p] = "idle" /\ pc'[p] = "loaded") => c'[p] = configValue
        /\ (pc[p] \in {"loaded", "posting"} /\ pc'[p] # "idle") => c'[p] = c[p]
        /\ (pc[p] = "posting" /\ pc'[p] # "idle") => posts'[p] = posts[p]
\* C9: a dispatch uses one Config snapshot throughout: the Config it loads
\* is the one stored at that time, it keeps it until the call ends whatever
\* Update does meanwhile, and the request it issues comes from an enabled
\* snapshot and goes to that snapshot's URL.
C9_OneSnapshot == [](C9_SnapshotState) /\ [][C9_SnapshotStep]_vars
C9_Witness ==
    \E p \in Procs :
        /\ pc[p] = "returned" /\ HasSent(p)
        /\ posts[p][1].url = c[p].URL
        /\ configValue.URL # c[p].URL
        /\ ~configValue.Enabled

\* C10: every call issues at most one POST, exactly one when its loaded
\* Config is enabled, and the POST carries a batch of one record.
C10_SingleAttempt ==
    \A p \in Procs :
        /\ Len(posts[p]) <= 1
        /\ \A i \in 1..Len(posts[p]) : Len(posts[p][i].data) = 1
        /\ (Loaded(p) /\ c[p].Enabled /\ pc[p] # "loaded") => Len(posts[p]) = 1
        /\ (Loaded(p) /\ ~c[p].Enabled) => Len(posts[p]) = 0

====
